---- MODULE Spec2Model ----
(***************************************************************************)
(* Model of the MCC events site: the event creation endpoint               *)
(* (src/app/api/events/route.ts), the calendar file endpoint               *)
(* (api/ics/[id]/route.ts, here src/unnamed/part_000) and the list / week  *)
(* helpers of src/components/EventsList.tsx.                               *)
(*                                                                         *)
(* Text is a sequence of one-character strings (a POST body field may hold *)
(* a longer chunk: the endpoint only tests it for emptiness).  A JavaScript *)
(* value that may be undefined, null or a string is a record [t, v].       *)
(* Instants are whole seconds since 1970-01-01T00:00:00Z.                  *)
(***************************************************************************)
EXTENDS Integers, Sequences, FiniteSets, TLC

VARIABLES
    store,            \* the events table of the backing store: a sequence of rows
    postPc,           \* POST handler position: "idle", "received", "inserting", "done"
    postReq,          \* the request body of the POST being handled
    postResp,         \* the POST response (status 0: none yet)
    postInserts,      \* inserts issued to the store by the POST being handled
    postInsertArg,    \* the row object handed to .insert([...])
    postOutcome,      \* what the store did with the insert: kind "none", "ok", "error"
                      \* or "throws", and the message it gave
    postStoreBefore,  \* the table as it was when the request arrived
    now,              \* the server clock: what new Date() reads
    getPc,            \* GET handler position: "idle", "received", "querying", "done"
    getId,            \* the id parameter of the GET being handled
    getResp,          \* the GET response (status 0: none yet)
    getQueries,       \* store lookups issued by the GET being handled
    getReply,         \* the { data, error } the store answered the lookup with
    getPrev,          \* the last 200 answer before this request: <<>> or <<[id, body]>>
    listEvents,       \* ListView's events prop
    listRendered,     \* whether ListView has rendered
    listGroups,       \* ListView's groups: a sequence of [key, rows]
    tz,               \* the browser's time zone: [std, at, shift, base]
    WEEK_START,       \* first day of the week: 0 = Sunday, 1 = Monday
    weekEvents,       \* WeekView's events prop
    weekRendered,     \* whether WeekView has rendered
    weekGrid,         \* what WeekView laid out: [weekStart, weekEnd, header, placed]
    kPhase,           \* KioskPage: "init" (rendered, effect not run), "mounted", "unmounted"
    kMounted,         \* the effect's closure variable mounted
    kTimer,           \* whether the setInterval timer is set
    kEvents,          \* KioskPage state: events
    kLoading,         \* KioskPage state: loading
    kError,           \* KioskPage state: error (Null or a message)
    kStarted,         \* calls of load() so far; the last one's number
    kFlights,         \* the load() calls awaiting the store: a set of [id, gte, lt]
    kLastStarted,     \* outcome of the most recently started load(): kind "pending", "ok", "fail"
    kLastCompleted,   \* outcome of the most recently completed load(): kind "none", "ok", "fail"
    uPc,              \* UpcomingEvents: "init", "fetching", "done"
    uEvents,          \* UpcomingEvents state: events
    uLoading,         \* UpcomingEvents state: loading
    uError,           \* UpcomingEvents state: error
    uOutcome,         \* outcome of UpcomingEvents' fetch: kind "none", "ok", "fail"
    aPc,              \* AdminPage handleSubmit: "idle", "fetch" (awaiting fetch), "json" (awaiting res.json())
    aForm,            \* the form element's field values
    aFd,              \* fd, the FormData read by the last handleSubmit
    aSubmitting,      \* AdminPage state: submitting
    aMessage,         \* AdminPage state: message (Null or a text)
    aSent,            \* the body of the POST sent by the last handleSubmit, or NoPost
    aStatus,          \* res.status of a response that is not ok, else 0
    aPath             \* how the last handleSubmit ended: "none", "validation", "notOk", "thrown", "ok"

postVars == <<postPc, postReq, postResp, postInserts, postInsertArg, postOutcome,
              postStoreBefore>>

getVars == <<getPc, getId, getResp, getQueries, getReply, getPrev>>

listVars == <<listEvents, listRendered, listGroups>>

weekVars == <<tz, WEEK_START, weekEvents, weekRendered, weekGrid>>

kioskVars == <<kPhase, kMounted, kTimer, kEvents, kLoading, kError, kStarted, kFlights,
               kLastStarted, kLastCompleted>>

upVars == <<uPc, uEvents, uLoading, uError, uOutcome>>

adminVars == <<aPc, aForm, aFd, aSubmitting, aMessage, aSent, aStatus, aPath>>

vars == <<store, postVars, now, getVars, listVars, weekVars, kioskVars, upVars, adminVars>>

\* ------------------------------------------------------------------ bounds

MaxRows == 2
MaxLen == 2       \* longest title drawn from Alphabet
MaxPad == 51      \* longest of the long titles (one past the filename limit)
MaxTicks == 1     \* clock advances
MaxEvents == 3    \* longest events list handed to ListView
MaxHours == 200   \* hours of event start instants drawn per time zone
MaxLoads == 3     \* calls of the kiosk's load(): the first and the timer's

ClockStart == 1767225599     \* 2025-12-31T23:59:59Z
ClockStep == 1               \* seconds per tick
BbqStart == 1757091600       \* 2025-09-05T17:00:00Z
BbqEnd == 1757098800         \* 2025-09-05T19:00:00Z

\* ------------------------------------------------------------ JS values

Undefined == [t |-> "undefined", v |-> <<>>]
Null == [t |-> "null", v |-> <<>>]
Str(s) == [t |-> "string", v |-> s]

\* JavaScript truthiness of undefined / null / a string: !x is true for
\* undefined, null and "".
TruthyNoEmptyCheck(x) == x.t = "string"
Truthy(x) == x.t = "string" /\ x.v # <<>>

\* x ?? null
CoalesceOr(x) == IF Truthy(x) THEN x ELSE Null
Coalesce(x) == IF x.t \in {"undefined", "null"} THEN Null ELSE x

\* ------------------------------------------------- POST /api/events

IsoA == Str(<<"2025-09-05T17:00:00.000Z">>)
IsoB == Str(<<"2025-09-05T19:00:00.000Z">>)

PostTitles == {Undefined, Null, Str(<<>>), Str(<<"B", "B", "Q">>)}
PostStarts == {Undefined, Str(<<>>), IsoA}
PostEnds == {Undefined, Str(<<>>), IsoB}
PostVenues == {Undefined, Null, Str(<<>>), Str(<<"H", "a", "l", "l">>)}

\* What req.json() can meet: text that is not JSON ("malformed"), a falsy JSON
\* value such as null, a truthy JSON value that is no object such as 42, or an
\* object with any of the four fields.
NoFields == [title |-> Undefined, start_ts |-> Undefined, end_ts |-> Undefined,
             venue |-> Undefined]
PostBodies ==
    {[kind |-> k, fields |-> NoFields] : k \in {"malformed", "falsy", "scalar"}}
    \cup {[kind |-> "object",
           fields |-> [title |-> t, start_ts |-> s, end_ts |-> e, venue |-> v]] :
            t \in PostTitles, s \in PostStarts, e \in PostEnds, v \in PostVenues}

\* const { title, start_ts, end_ts, venue } = body || {}
Destructure(body) == IF body.kind = "object" THEN body.fields ELSE NoFields

\* if (!title || !start_ts || !end_ts)
PostInvalid(f) == ~Truthy(f.title) \/ ~Truthy(f.start_ts) \/ ~Truthy(f.end_ts)

\* [{ title, start_ts, end_ts, venue: venue ?? null }]
InsertArg(f) == [title |-> f.title, start_ts |-> f.start_ts, end_ts |-> f.end_ts,
                 venue |-> Coalesce(f.venue)]

NoResp == [status |-> 0, kind |-> "none", error |-> "", row |-> <<>>]
ErrorResp(code, msg) == [status |-> code, kind |-> "error", error |-> msg, row |-> <<>>]
RowResp(code, r) == [status |-> code, kind |-> "row", error |-> "", row |-> <<r>>]

\* NextResponse.json({ error: "title, start_ts, and end_ts are required" }, { status: 400 })
ValidationResp == ErrorResp(400, "title, start_ts, and end_ts are required")
\* catch (err): NextResponse.json({ error: err?.message ?? "Unexpected error" }, { status: 500 })
CatchRespAs400(msg) == ErrorResp(400, msg)
CatchResp(msg) == ErrorResp(500, msg)
\* if (error) return NextResponse.json({ error: error.message }, { status: 400 })
StoreErrorResp(msg) == ErrorResp(400, msg)
\* return NextResponse.json(data, { status: 201 })
CreatedResp(r) == RowResp(201, r)

StoreErrors == {"duplicate key value", "permission denied"}
ThrownErrors == {"fetch failed"}
JsonError == "Unexpected token in JSON"

\* The row the store keeps for an insert: the inserted columns with a
\* server-assigned id.
StoredRow(arg, id) == [id |-> id, title |-> arg.title, start_ts |-> arg.start_ts,
                       end_ts |-> arg.end_ts, venue |-> arg.venue]

NoOutcome == [kind |-> "none", msg |-> ""]

PostIdle ==
    /\ postPc = "idle"
    /\ postReq = [kind |-> "falsy", fields |-> NoFields]
    /\ postResp = NoResp
    /\ postInserts = 0
    /\ postInsertArg = <<>>
    /\ postOutcome = NoOutcome
    /\ postStoreBefore = <<>>

\* A request arrives.
PostRequest(body) ==
    /\ postPc \in {"idle", "done"}
    /\ postPc' = "received"
    /\ postReq' = body
    /\ postResp' = NoResp
    /\ postInserts' = 0
    /\ postInsertArg' = <<>>
    /\ postOutcome' = NoOutcome
    /\ postStoreBefore' = store
    /\ UNCHANGED <<store, now, getVars, listVars, weekVars, kioskVars, upVars, adminVars>>

\* POST up to its await of the insert: parse, destructure, validate, issue.
PostHandle ==
    /\ postPc = "received"
    /\ IF postReq.kind = "malformed"
         THEN /\ postResp' = CatchResp(JsonError)
              /\ postPc' = "done"
              /\ UNCHANGED <<postInserts, postInsertArg>>
         ELSE LET f == Destructure(postReq) IN
              IF PostInvalid(f)
                THEN /\ postResp' = ValidationResp
                     /\ postPc' = "done"
                     /\ UNCHANGED <<postInserts, postInsertArg>>
                ELSE /\ postInsertArg' = <<InsertArg(f)>>
                     /\ postInserts' = postInserts + 1
                     /\ postPc' = "inserting"
                     /\ UNCHANGED postResp
    /\ UNCHANGED <<store, postReq, postOutcome, postStoreBefore, now, getVars, listVars, weekVars, kioskVars, upVars, adminVars>>

\* The store keeps the row and returns it ({ data, error: null }).
PostStoreOk ==
    /\ postPc = "inserting"
    /\ Len(store) < MaxRows
    /\ LET r == StoredRow(postInsertArg[1], Len(store) + 1) IN
         /\ store' = Append(store, r)
         /\ postResp' = CreatedResp(r)
    /\ postOutcome' = [kind |-> "ok", msg |-> ""]
    /\ postPc' = "done"
    /\ UNCHANGED <<postReq, postInserts, postInsertArg, postStoreBefore, now, getVars, listVars, weekVars, kioskVars, upVars, adminVars>>

\* The store reports a failure ({ data: null, error }).
PostStoreError(msg) ==
    /\ postPc = "inserting"
    /\ postResp' = StoreErrorResp(msg)
    /\ postOutcome' = [kind |-> "error", msg |-> msg]
    /\ postPc' = "done"
    /\ UNCHANGED <<store, postReq, postInserts, postInsertArg, postStoreBefore, now, getVars, listVars, weekVars, kioskVars, upVars, adminVars>>

\* The awaited insert rejects: the catch block answers.
PostStoreThrows(msg) ==
    /\ postPc = "inserting"
    /\ postResp' = CatchResp(msg)
    /\ postOutcome' = [kind |-> "throws", msg |-> msg]
    /\ postPc' = "done"
    /\ UNCHANGED <<store, postReq, postInserts, postInsertArg, postStoreBefore, now, getVars, listVars, weekVars, kioskVars, upVars, adminVars>>

\* ------------------------------------------------------------------ text

BS == "\\"
LF == "\n"
CR == "\r"
NonAscii == "U+00E9"     \* one code unit outside ASCII

RECURSIVE ReplaceAll(_, _, _)
\* s.replace(/c/g, r): every occurrence of the character c becomes the text r
ReplaceAll(s, c, r) ==
    IF s = <<>> THEN <<>>
    ELSE (IF Head(s) = c THEN r ELSE <<Head(s)>>) \o ReplaceAll(Tail(s), c, r)

RECURSIVE Join(_, _)
\* lines.join(sep)
Join(lines, sep) ==
    IF lines = <<>> THEN <<>>
    ELSE IF Len(lines) = 1 THEN lines[1]
    ELSE lines[1] \o sep \o Join(Tail(lines), sep)

RECURSIVE Rep(_, _)
Rep(c, k) == IF k = 0 THEN <<>> ELSE <<c>> \o Rep(c, k - 1)

RECURSIVE SeqsUpTo(_, _)
\* the sequences over S of length 0..n
SeqsUpTo(S, n) ==
    IF n = 0 THEN {<<>>}
    ELSE LET shorter == SeqsUpTo(S, n - 1) IN
         shorter \cup {Append(q, c) : q \in shorter, c \in S}

Digits == <<"0", "1", "2", "3", "4", "5", "6", "7", "8", "9">>

RECURSIVE ToDigits(_)
\* n.toString() of a natural number
ToDigits(n) ==
    IF n < 10 THEN <<Digits[n + 1]>> ELSE ToDigits(n \div 10) \o <<Digits[(n % 10) + 1]>>

\* n.toString().padStart(2, "0")
pad(n) == LET d == ToDigits(n) IN IF Len(d) < 2 THEN <<"0">> \o d ELSE d

\* ------------------------------------------------------- UTC date fields

SecondsPerDay == 86400

\* Date.prototype.getUTCFullYear / getUTCMonth + 1 / getUTCDate of an instant:
\* the proleptic Gregorian date of day number z (days since 1970-01-01).
CivilFromDays(z) ==
    LET zz == z + 719468
        era == zz \div 146097
        doe == zz - era * 146097
        yoe == (doe - (doe \div 1460) + (doe \div 36524) - (doe \div 146096)) \div 365
        doy == doe - (365 * yoe + (yoe \div 4) - (yoe \div 100))
        mp == (5 * doy + 2) \div 153
        d == doy - ((153 * mp + 2) \div 5) + 1
        m == IF mp < 10 THEN mp + 3 ELSE mp - 9
        y == yoe + era * 400 + (IF m <= 2 THEN 1 ELSE 0)
    IN [year |-> y, month |-> m, date |-> d]

getUTCHours(t) == (t % SecondsPerDay) \div 3600
getUTCMinutes(t) == (t % 3600) \div 60
getUTCSeconds(t) == t % 60

\* toIcsUtc(d): "YYYYMMDDTHHMMSSZ"
toIcsUtc(t) ==
    LET c == CivilFromDays(t \div SecondsPerDay) IN
    ToDigits(c.year) \o pad(c.month) \o pad(c.date) \o <<"T">>
        \o pad(getUTCHours(t)) \o pad(getUTCMinutes(t)) \o pad(getUTCSeconds(t)) \o <<"Z">>

\* ------------------------------------------------- GET /api/ics/[id]

LineBeginCalendar == <<"B", "E", "G", "I", "N", ":", "V", "C", "A", "L", "E", "N", "D", "A", "R">>
LineVersion == <<"V", "E", "R", "S", "I", "O", "N", ":", "2", ".", "0">>
LineProdId == <<"P", "R", "O", "D", "I", "D", ":", "-", "/", "/", "M", "C", "C", " ", "E", "v", "e", "n", "t", "s", "/", "/", "E", "N">>
LineCalScale == <<"C", "A", "L", "S", "C", "A", "L", "E", ":", "G", "R", "E", "G", "O", "R", "I", "A", "N">>
LineMethod == <<"M", "E", "T", "H", "O", "D", ":", "P", "U", "B", "L", "I", "S", "H">>
LineBeginEvent == <<"B", "E", "G", "I", "N", ":", "V", "E", "V", "E", "N", "T">>
LineEndEvent == <<"E", "N", "D", ":", "V", "E", "V", "E", "N", "T">>
LineEndCalendar == <<"E", "N", "D", ":", "V", "C", "A", "L", "E", "N", "D", "A", "R">>
UidPrefix == <<"U", "I", "D", ":">>
UidSuffix == <<"@", "m", "c", "c", "-", "e", "v", "e", "n", "t", "s">>
DtStampPrefix == <<"D", "T", "S", "T", "A", "M", "P", ":">>
DtStartPrefix == <<"D", "T", "S", "T", "A", "R", "T", ":">>
DtEndPrefix == <<"D", "T", "E", "N", "D", ":">>
SummaryPrefix == <<"S", "U", "M", "M", "A", "R", "Y", ":">>
LocationPrefix == <<"L", "O", "C", "A", "T", "I", "O", "N", ":">>
CRLF == <<CR, LF>>
ContentTypeCalendar == "text/calendar; charset=utf-8"
DispositionPrefix == <<"a", "t", "t", "a", "c", "h", "m", "e", "n", "t", ";", " ", "f", "i", "l", "e", "n", "a", "m", "e", "=", "\"", "e", "v", "e", "n", "t", "-">>
DispositionSuffix == <<".", "i", "c", "s", "\"">>

\* escapeIcsText with the backslash replaced last: the backslashes the other
\* three replacements introduce are doubled
escapeIcsTextBackslashLast(s) ==
    ReplaceAll(ReplaceAll(ReplaceAll(ReplaceAll(s, ";", <<BS, ";">>), ",", <<BS, ",">>),
                          LF, <<BS, "n">>), BS, <<BS, BS>>)
\* escapeIcsText(s): four global replacements, in this order
escapeIcsText(s) ==
    ReplaceAll(ReplaceAll(ReplaceAll(ReplaceAll(s, BS, <<BS, BS>>), ";", <<BS, ";">>),
                          ",", <<BS, ",">>), LF, <<BS, "n">>)

\* ev.venue ?? ""
VenueText(ev) == IF ev.venue.t = "string" THEN ev.venue.v ELSE <<>>

\* the array of lines with the generation instant also in the UID
IcsLinesStampedUid(ev, stamp) ==
    <<LineBeginCalendar, LineVersion, LineProdId, LineCalScale, LineMethod, LineBeginEvent,
      UidPrefix \o ev.id \o <<"-">> \o toIcsUtc(stamp) \o UidSuffix,
      DtStampPrefix \o toIcsUtc(stamp),
      DtStartPrefix \o toIcsUtc(ev.start_ts),
      DtEndPrefix \o toIcsUtc(ev.end_ts),
      SummaryPrefix \o escapeIcsText(ev.title),
      LocationPrefix \o escapeIcsText(VenueText(ev)),
      LineEndEvent, LineEndCalendar, <<>>>>
\* the array of lines of the .ics file; stamp is new Date()
IcsLines(ev, stamp) ==
    <<LineBeginCalendar, LineVersion, LineProdId, LineCalScale, LineMethod, LineBeginEvent,
      UidPrefix \o ev.id \o UidSuffix,
      DtStampPrefix \o toIcsUtc(stamp),
      DtStartPrefix \o toIcsUtc(ev.start_ts),
      DtEndPrefix \o toIcsUtc(ev.end_ts),
      SummaryPrefix \o escapeIcsText(ev.title),
      LocationPrefix \o escapeIcsText(VenueText(ev)),
      LineEndEvent, LineEndCalendar, <<>>>>

\* [ ... ].join("\r\n")
IcsText(ev, stamp) == Join(IcsLines(ev, stamp), CRLF)

FILENAME_LIMIT == 50

SafeChars ==
    {"a", "b", "c", "d", "e", "f", "g", "h", "i", "j", "k", "l", "m", "n", "o", "p", "q",
     "r", "s", "t", "u", "v", "w", "x", "y", "z",
     "A", "B", "C", "D", "E", "F", "G", "H", "I", "J", "K", "L", "M", "N", "O", "P", "Q",
     "R", "S", "T", "U", "V", "W", "X", "Y", "Z",
     "0", "1", "2", "3", "4", "5", "6", "7", "8", "9", "_", "-"}

\* .replace(/[^a-z0-9_\-]/gi, "_"): one code unit at a time
SanitizeChars(s) == [i \in 1..Len(s) |-> IF s[i] \in SafeChars THEN s[i] ELSE "_"]

\* .substring(0, n)
Substring0(s, n) == SubSeq(s, 1, IF Len(s) < n THEN Len(s) ELSE n)

safeTitleNoLimit(title) == SanitizeChars(title)
safeTitle(title) == Substring0(SanitizeChars(title), FILENAME_LIMIT)

\* if (!id)
MissingIdNoEmptyCheck(id) == id.t # "string"
MissingId(id) == ~Truthy(id)

\* if (error || !ev)
LookupFailed(reply) == reply.error # "" \/ reply.data = <<>>

NoGetResp == [status |-> 0, contentType |-> "", disposition |-> <<>>, body |-> <<>>, text |-> ""]
\* new NextResponse("Missing event id", { status: 400 })
MissingIdResp == [status |-> 400, contentType |-> "text/plain;charset=UTF-8",
                  disposition |-> <<>>, body |-> <<>>, text |-> "Missing event id"]
\* new NextResponse("Event not found", { status: 404 })
NotFoundResp == [status |-> 404, contentType |-> "text/plain;charset=UTF-8",
                 disposition |-> <<>>, body |-> <<>>, text |-> "Event not found"]
\* new NextResponse(ics, { status: 200, headers })
CalendarResp(ev, stamp) ==
    [status |-> 200, contentType |-> ContentTypeCalendar,
     disposition |-> DispositionPrefix \o safeTitle(ev.title) \o DispositionSuffix,
     body |-> IcsText(ev, stamp), text |-> ""]

NoReply == [data |-> <<>>, error |-> ""]
LookupErrors == {"JSON object requested, multiple (or no) rows returned", "connection refused"}

\* .from("events").select(...).eq("id", id)
RowsWithId(id) == {i \in 1..Len(store) : store[i].id = id}

GetIdle ==
    /\ getPc = "idle"
    /\ getId = Undefined
    /\ getResp = NoGetResp
    /\ getQueries = 0
    /\ getReply = NoReply
    /\ getPrev = <<>>

\* A request arrives; the last calendar answer is remembered for comparison.
GetRequest(id) ==
    /\ getPc \in {"idle", "done"}
    /\ getPc' = "received"
    /\ getId' = id
    /\ getResp' = NoGetResp
    /\ getQueries' = 0
    /\ getReply' = NoReply
    /\ getPrev' = IF getResp.status = 200
                    THEN <<[id |-> getId.v, body |-> getResp.body]>>
                    ELSE getPrev
    /\ UNCHANGED <<store, postVars, now, listVars, weekVars, kioskVars, upVars, adminVars>>

\* GET up to its await of the lookup: the id guard, then the query is issued.
GetHandle ==
    /\ getPc = "received"
    /\ IF MissingId(getId)
         THEN /\ getResp' = MissingIdResp
              /\ getPc' = "done"
              /\ UNCHANGED getQueries
         ELSE /\ getQueries' = getQueries + 1
              /\ getPc' = "querying"
              /\ UNCHANGED getResp
    /\ UNCHANGED <<store, postVars, now, getId, getReply, getPrev, listVars, weekVars, kioskVars, upVars, adminVars>>

\* The rest of GET once the store has answered with reply.
GetAnswer(reply) ==
    /\ getReply' = reply
    /\ getResp' = IF LookupFailed(reply) THEN NotFoundResp
                  ELSE CalendarResp(reply.data[1], now)
    /\ getPc' = "done"
    /\ UNCHANGED <<store, postVars, now, getId, getQueries, getPrev, listVars, weekVars, kioskVars, upVars, adminVars>>

\* .single() found exactly one row
GetStoreFound ==
    /\ getPc = "querying"
    /\ \E i \in RowsWithId(getId.v) :
         /\ Cardinality(RowsWithId(getId.v)) = 1
         /\ GetAnswer([data |-> <<store[i]>>, error |-> ""])

\* .single() reports an error: no such row, or the lookup itself failed
GetStoreError(msg) ==
    /\ getPc = "querying"
    /\ GetAnswer([data |-> <<>>, error |-> msg])

\* time passes between requests
ClockTick ==
    /\ now < ClockStart + MaxTicks * ClockStep
    /\ postPc \in {"idle", "done"}
    /\ getPc \in {"idle", "done"}
    /\ now' = now + ClockStep
    /\ UNCHANGED <<store, postVars, getVars, listVars, weekVars, kioskVars, upVars, adminVars>>


\* ------------------------------------------------- ListView (EventsList.tsx)

\* year.toString().padStart(4, "0"), as toISOString writes the years 0..9999
pad4(n) == LET d == ToDigits(n) IN Rep("0", 4 - Len(d)) \o d

\* new Date(ev.start_ts).toISOString().slice(0, 10): "YYYY-MM-DD" in UTC
dayKey(t) ==
    LET c == CivilFromDays(t \div SecondsPerDay) IN
    pad4(c.year) \o <<"-">> \o pad(c.month) \o <<"-">> \o pad(c.date)

\* collation order of the characters of a day key
KeyChars == <<"-", "0", "1", "2", "3", "4", "5", "6", "7", "8", "9">>
CharRank(c) == CHOOSE i \in 1..Len(KeyChars) : KeyChars[i] = c

\* a.localeCompare(b) on day keys: negative, zero or positive
localeCompareReversed(a, b) ==
    LET n == IF Len(a) < Len(b) THEN Len(a) ELSE Len(b)
        diff == {i \in 1..n : a[i] # b[i]}
    IN IF diff = {} THEN Len(b) - Len(a)
       ELSE LET i == CHOOSE j \in diff : \A k \in diff : j <= k
            IN CharRank(b[i]) - CharRank(a[i])
localeCompare(a, b) ==
    LET n == IF Len(a) < Len(b) THEN Len(a) ELSE Len(b)
        diff == {i \in 1..n : a[i] # b[i]}
    IN IF diff = {} THEN Len(a) - Len(b)
       ELSE LET i == CHOOSE j \in diff : \A k \in diff : j <= k
            IN CharRank(a[i]) - CharRank(b[i])

\* one turn of the loop: map.has / map.set(dayKey, []) / map.get(dayKey).push(ev)
MapPush(map, ev) ==
    LET k == dayKey(ev.start_ts)
        at == {i \in 1..Len(map) : map[i].key = k}
    IN IF at = {} THEN Append(map, [key |-> k, rows |-> <<ev>>])
       ELSE [i \in 1..Len(map) |->
               IF i \in at THEN [key |-> k, rows |-> Append(map[i].rows, ev)] ELSE map[i]]

RECURSIVE GroupLoop(_, _)
\* for (const ev of events) { ... }: the Map's entries in insertion order
GroupLoop(events, map) ==
    IF events = <<>> THEN map ELSE GroupLoop(Tail(events), MapPush(map, Head(events)))

\* an entry put into an already sorted array, after the entries it does not precede
InsertEntry(sorted, e) ==
    LET before == {i \in 1..Len(sorted) : localeCompare(sorted[i].key, e.key) <= 0}
        n == Cardinality(before)
    IN SubSeq(sorted, 1, n) \o <<e>> \o SubSeq(sorted, n + 1, Len(sorted))

RECURSIVE SortEntries(_)
\* entries.sort(([a], [b]) => a.localeCompare(b)): Array.prototype.sort is stable
SortEntries(entries) ==
    IF entries = <<>> THEN <<>>
    ELSE InsertEntry(SortEntries(SubSeq(entries, 1, Len(entries) - 1)), entries[Len(entries)])

\* the useMemo body of ListView
GroupByDay(events) == SortEntries(GroupLoop(events, <<>>))

NewYearsEve == 1735686000    \* 2024-12-31T23:00:00Z
NewYearMorning == 1735725600 \* 2025-01-01T10:00:00Z
NewYearNight == 1735772400   \* 2025-01-01T23:00:00Z
StartSamples == {NewYearsEve, NewYearMorning, NewYearNight, BbqStart}

EventIds == 1..MaxEvents

\* every list of at most MaxEvents events with distinct ids, in any order
ListInputs ==
    {l \in SeqsUpTo([id : EventIds, start_ts : StartSamples], MaxEvents) :
        \A i, j \in 1..Len(l) : i # j => l[i].id # l[j].id}

ListIdle == listEvents = <<>> /\ listRendered = FALSE /\ listGroups = <<>>

\* ListView renders: useMemo computes the groups of the events prop
ListRender ==
    /\ ~listRendered
    /\ listGroups' = GroupByDay(listEvents)
    /\ listRendered' = TRUE
    /\ UNCHANGED <<store, postVars, now, getVars, listEvents, weekVars, kioskVars, upVars, adminVars>>


\* ----------------------------------------- local time (EventsList.tsx)

\* A time zone with one clock change in the modelled span: local time is UTC
\* + std before the instant at, UTC + std + shift from it on.
ZoneUTC == [std |-> 0, at |-> 2000000000, shift |-> 0, base |-> 1736035200]
\* New York, spring: 2025-03-09 02:00 EST becomes 03:00 EDT
ZoneNewYorkSpring == [std |-> -18000, at |-> 1741503600, shift |-> 3600, base |-> 1741132800]
\* New York, autumn: 2025-11-02 02:00 EDT becomes 01:00 EST
ZoneNewYorkAutumn == [std |-> -14400, at |-> 1762063200, shift |-> -3600, base |-> 1761696000]
\* Beirut, spring: 2025-03-30 00:00 EET becomes 01:00 EEST
ZoneBeirutSpring == [std |-> 7200, at |-> 1743285600, shift |-> 3600, base |-> 1742947200]
Zones == {ZoneUTC, ZoneNewYorkSpring, ZoneNewYorkAutumn, ZoneBeirutSpring}

\* LocalTime(t) of ECMAScript: the local time value of a UTC instant
LocalTime(u) == u + (IF u < tz.at THEN tz.std ELSE tz.std + tz.shift)

\* UTC(t) of ECMAScript: a local time that is skipped or repeated by the clock
\* change is read with the offset before the change
UtcOfLocal(l) ==
    LET u1 == l - tz.std
        u2 == l - tz.std - tz.shift
    IN IF u1 < tz.at THEN u1 ELSE IF u2 >= tz.at THEN u2 ELSE u1

\* the local calendar day (days since 1970-01-01) of an instant
LocalDay(u) == LocalTime(u) \div SecondsPerDay

\* date.getDay(): 0 = Sunday; 1970-01-01 was a Thursday
getDay(u) == (LocalDay(u) + 4) % 7

\* date.setHours(0, 0, 0, 0)
setHoursZero(u) == UtcOfLocal(LocalDay(u) * SecondsPerDay)

\* date.setDate(date.getDate() + k)
addDate(u, k) == UtcOfLocal(LocalTime(u) + k * SecondsPerDay)

\* startOfWeek(d)
startOfWeek(d) ==
    LET day == (getDay(d) - WEEK_START + 7) % 7 IN addDate(setHoursZero(d), 0 - day)

\* endOfWeek(d)
endOfWeek(d) == addDate(startOfWeek(d), 7)

\* dayIndex without the wrap-around
dayIndexNoWrap(date) == getDay(date) - WEEK_START
\* dayIndex(date): 0..6 column index
dayIndex(date) == (getDay(date) - WEEK_START + 7) % 7

\* minutesSinceMidnight(d): d.getHours() * 60 + d.getMinutes()
minutesSinceMidnight(d) ==
    LET s == LocalTime(d) % SecondsPerDay IN (s \div 3600) * 60 + ((s % 3600) \div 60)

\* ------------------------------------------------- WeekView (EventsList.tsx)

\* const weekEvents = events.filter(...): s >= weekStart && s < weekEnd
InWeek(ev, weekStart, weekEnd) == ev.start_ts >= weekStart /\ ev.start_ts < weekEnd

RECURSIVE Filter(_, _, _)
Filter(events, weekStart, weekEnd) ==
    IF events = <<>> THEN <<>>
    ELSE (IF InWeek(Head(events), weekStart, weekEnd) THEN <<Head(events)>> ELSE <<>>)
         \o Filter(Tail(events), weekStart, weekEnd)

\* Layout constants
dayHoursStart == 8
dayHoursEnd == 20
minutesSpan == (dayHoursEnd - dayHoursStart) * 60

MathMax(a, b) == IF a >= b THEN a ELSE b
MathMin(a, b) == IF a <= b THEN a ELSE b

\* Math.max(minutesSinceMidnight(s), dayHoursStart * 60) - dayHoursStart * 60
sMinOf(start) == MathMax(minutesSinceMidnight(start), dayHoursStart * 60) - dayHoursStart * 60
\* Math.min(minutesSinceMidnight(e), dayHoursEnd * 60) - dayHoursStart * 60
eMinOf(end) == MathMin(minutesSinceMidnight(end), dayHoursEnd * 60) - dayHoursStart * 60
\* Math.max(0, sMin / minutesSpan) * 100, times minutesSpan
topPctOf(sMin) == MathMax(0, sMin) * 100
\* Math.max(8, (eMin - sMin) / minutesSpan * 100), times minutesSpan
heightPctOf(sMin, eMin) == MathMax(8 * minutesSpan, (eMin - sMin) * 100)

\* the seven header dates: d = new Date(weekStart); d.setDate(d.getDate() + i)
HeaderDates(weekStart) == [i \in 1..7 |-> addDate(weekStart, i - 1)]

\* the column an event is drawn in: the col with dayIndex(new Date(ev.start_ts)) === col
\* with its position in the column: sMin, eMin in minutes from 8:00; topPct and
\* heightPct are fractions of a percent, kept as their numerators over minutesSpan
Placed(events) ==
    [i \in 1..Len(events) |->
        LET s == sMinOf(events[i].start_ts)
            e == eMinOf(events[i].end_ts)
        IN [id |-> events[i].id, col |-> dayIndex(events[i].start_ts),
            sMin |-> s, eMin |-> e, topPct |-> topPctOf(s), heightPct |-> heightPctOf(s, e)]]

NoGrid == [weekStart |-> 0, weekEnd |-> 0, header |-> <<>>, placed |-> <<>>]

\* WeekView renders at the instant now
WeekLayout(events, at) ==
    LET weekStart == startOfWeek(at)
        weekEnd == endOfWeek(at)
    IN [weekStart |-> weekStart, weekEnd |-> weekEnd, header |-> HeaderDates(weekStart),
        placed |-> Placed(Filter(events, weekStart, weekEnd))]

WeekIdle ==
    /\ tz = ZoneUTC
    /\ WEEK_START = 1
    /\ weekEvents = <<>>
    /\ weekRendered = FALSE
    /\ weekGrid = NoGrid

WeekRender ==
    /\ ~weekRendered
    /\ weekGrid' = WeekLayout(weekEvents, now)
    /\ weekRendered' = TRUE
    /\ UNCHANGED <<store, postVars, now, getVars, listVars, tz, WEEK_START, weekEvents,
                 kioskVars, upVars, adminVars>>

HOUR == 3600
\* an event start every hour from the zone's base, on the hour and a second before the next
EventStarts(z) == {z.base + h * HOUR + o : h \in 0..MaxHours, o \in {0, HOUR - 1}}
\* its end: an hour later, thirteen hours later, or (not enforced) an hour before
EventEnds(s) == {s + HOUR, s + 13 * HOUR, s - HOUR}
\* three readings of the clock: the second, fifth and eighth day at 12:00 UTC
NowSamples(z) == {z.base + d * SecondsPerDay + 12 * HOUR : d \in {1, 4, 7}}

\* ------------------------------------------------------------ event rows

IdE1 == <<"e", "1">>
IdE2 == <<"e", "2">>
IdUnknown == <<"z", "z">>
TitleBBQ == <<"W", "e", "l", "c", "o", "m", "e", " ", "B", "B", "Q">>
VenueMainHall == <<"M", "a", "i", "n", " ", "H", "a", "l", "l">>
RowBBQ == [id |-> IdE2, title |-> TitleBBQ, start_ts |-> BbqStart, end_ts |-> BbqEnd,
           venue |-> Str(VenueMainHall)]

\* ------------------------------------------------- KioskPage (kiosk/page.tsx)

REFRESH_SECONDS == 60        \* setInterval(load, 60_000)

RowLate == [id |-> IdE1, title |-> <<"a">>, start_ts |-> BbqEnd, end_ts |-> BbqEnd + HOUR,
            venue |-> Null]

\* what the store can answer a select with: data null, or an array of rows
NullData == [t |-> "null", v |-> <<>>]
Arr(rows) == [t |-> "array", v |-> rows]
FetchData == {NullData, Arr(<<RowBBQ>>), Arr(<<RowBBQ, RowLate>>)}
\* the error objects it can answer with: with a message, or without
FetchErrors == {Str(<<"connection refused">>), Undefined}

\* data ?? []
OrEmpty(d) == IF d.t = "null" THEN <<>> ELSE d.v

\* e.message ?? fallback
MessageOr(m, fallback) == IF m.t \in {"undefined", "null"} THEN Str(<<fallback>>) ELSE m

\* if (mounted) setX(value): the new value of the state x
GuardAlways(mounted, value, old) == value
Guard(mounted, value, old) == IF mounted THEN value ELSE old

Pending == [kind |-> "pending", data |-> <<>>, msg |-> Null]
NoFetch == [kind |-> "none", data |-> <<>>, msg |-> Null]
OkOutcome(rows) == [kind |-> "ok", data |-> rows, msg |-> Null]
FailOutcome(m) == [kind |-> "fail", data |-> <<>>, msg |-> m]

\* the query of load(): start_ts >= local midnight today, < local midnight tomorrow
TodayQuery(id, at) ==
    LET startOfDay == setHoursZero(at) IN
    [id |-> id, gte |-> startOfDay, lt |-> addDate(startOfDay, 1)]

KioskIdle ==
    /\ kPhase = "init"
    /\ kMounted = FALSE
    /\ kTimer = FALSE
    /\ kEvents = <<>>
    /\ kLoading = TRUE
    /\ kError = Null
    /\ kStarted = 0
    /\ kFlights = {}
    /\ kLastStarted = NoFetch
    /\ kLastCompleted = NoFetch

\* load() up to its await: setError(null), setLoading(true), the query is sent
LoadStart(at) ==
    /\ kError' = Null
    /\ kLoading' = TRUE
    /\ kStarted' = kStarted + 1
    /\ kFlights' = kFlights \cup {TodayQuery(kStarted + 1, at)}
    /\ kLastStarted' = Pending
    /\ UNCHANGED <<kEvents, kLastCompleted>>

\* the effect runs: mounted = true, load(), timer = setInterval(load, 60_000)
KioskMount ==
    /\ kPhase = "init"
    /\ kPhase' = "mounted"
    /\ kMounted' = TRUE
    /\ kTimer' = TRUE
    /\ LoadStart(now)
    /\ UNCHANGED <<store, postVars, now, getVars, listVars, weekVars, upVars, adminVars>>

\* the interval elapses: load() is called again
KioskTick ==
    /\ kTimer
    /\ kStarted < MaxLoads
    /\ now' = now + REFRESH_SECONDS
    /\ LoadStart(now')
    /\ UNCHANGED <<store, postVars, getVars, listVars, weekVars, upVars, adminVars, kPhase, kMounted,
                   kTimer>>

\* the store answers the load() f with data: setEvents, then finally setLoading(false)
KioskFetchOk(f, d) ==
    /\ f \in kFlights
    /\ kFlights' = kFlights \ {f}
    /\ kEvents' = Guard(kMounted, OrEmpty(d), kEvents)
    /\ kLoading' = Guard(kMounted, FALSE, kLoading)
    /\ kLastStarted' = IF f.id = kStarted THEN OkOutcome(OrEmpty(d)) ELSE kLastStarted
    /\ kLastCompleted' = OkOutcome(OrEmpty(d))
    /\ UNCHANGED <<store, postVars, now, getVars, listVars, weekVars, upVars, adminVars, kPhase,
                   kMounted, kTimer, kError, kStarted>>

\* the store answers the load() f with an error: throw, catch setError, finally
KioskFetchFail(f, e) ==
    /\ f \in kFlights
    /\ kFlights' = kFlights \ {f}
    /\ kError' = Guard(kMounted, MessageOr(e, "Failed to load"), kError)
    /\ kLoading' = Guard(kMounted, FALSE, kLoading)
    /\ kLastStarted' = IF f.id = kStarted THEN FailOutcome(MessageOr(e, "Failed to load"))
                       ELSE kLastStarted
    /\ kLastCompleted' = FailOutcome(MessageOr(e, "Failed to load"))
    /\ UNCHANGED <<store, postVars, now, getVars, listVars, weekVars, upVars, adminVars, kPhase,
                   kMounted, kTimer, kEvents, kStarted>>

\* the effect's cleanup: mounted = false, clearInterval(timer)
KioskUnmount ==
    /\ kPhase = "mounted"
    /\ kPhase' = "unmounted"
    /\ kMounted' = FALSE
    /\ kTimer' = FALSE
    /\ UNCHANGED <<store, postVars, now, getVars, listVars, weekVars, upVars, adminVars, kEvents,
                   kLoading, kError, kStarted, kFlights, kLastStarted, kLastCompleted>>

\* --------------------------------------- UpcomingEvents (EventsList.tsx)

UpcomingIdle ==
    /\ uPc = "init"
    /\ uEvents = <<>>
    /\ uLoading = TRUE
    /\ uError = Null
    /\ uOutcome = NoFetch

\* the effect runs: the query for the events from now on is sent
UpcomingMount ==
    /\ uPc = "init"
    /\ uPc' = "fetching"
    /\ UNCHANGED <<store, postVars, now, getVars, listVars, weekVars, kioskVars, adminVars, uEvents,
                   uLoading, uError, uOutcome>>

\* the store answers with data: setEvents(data ?? []), finally setLoading(false)
UpcomingFetchOk(d) ==
    /\ uPc = "fetching"
    /\ uPc' = "done"
    /\ uEvents' = OrEmpty(d)
    /\ uLoading' = FALSE
    /\ uOutcome' = OkOutcome(OrEmpty(d))
    /\ UNCHANGED <<store, postVars, now, getVars, listVars, weekVars, kioskVars, adminVars, uError>>

\* the store answers with an error: throw, catch setError, finally setLoading(false)
UpcomingFetchFail(e) ==
    /\ uPc = "fetching"
    /\ uPc' = "done"
    /\ uError' = MessageOr(e, "Failed to load events")
    /\ uLoading' = FALSE
    /\ uOutcome' = FailOutcome(MessageOr(e, "Failed to load events"))
    /\ UNCHANGED <<store, postVars, now, getVars, listVars, weekVars, kioskVars, adminVars, uEvents>>

\* ------------------------------------------------- AdminPage (admin/page.tsx)

TAB == "\t"
WhiteSpace == {" ", TAB, LF, CR}

RECURSIVE trimStart(_)
trimStart(s) == IF s # <<>> /\ Head(s) \in WhiteSpace THEN trimStart(Tail(s)) ELSE s

RECURSIVE trimEnd(_)
trimEnd(s) ==
    IF s # <<>> /\ s[Len(s)] \in WhiteSpace THEN trimEnd(SubSeq(s, 1, Len(s) - 1)) ELSE s

\* String.prototype.trim
trim(s) == trimEnd(trimStart(s))

\* x || y
OrElse(x, y) == IF Truthy(x) THEN x ELSE y

IsDigit(c) == \E i \in 1..Len(Digits) : Digits[i] = c
DigitValue(c) == (CHOOSE i \in 1..Len(Digits) : Digits[i] = c) - 1

RECURSIVE Num(_)
\* the number written by a text of digits
Num(s) == IF s = <<>> THEN 0 ELSE 10 * Num(SubSeq(s, 1, Len(s) - 1)) + DigitValue(s[Len(s)])

IsLeap(y) == (y % 4 = 0 /\ y % 100 # 0) \/ y % 400 = 0
DaysInMonth(y, m) ==
    IF m = 2 THEN (IF IsLeap(y) THEN 29 ELSE 28)
    ELSE IF m \in {4, 6, 9, 11} THEN 30 ELSE 31

\* the day number (days since 1970-01-01) of a proleptic Gregorian date
DaysFromCivil(y, m, d) ==
    LET yy == IF m <= 2 THEN y - 1 ELSE y
        era == yy \div 400
        yoe == yy - era * 400
        mp == IF m > 2 THEN m - 3 ELSE m + 9
        doy == ((153 * mp + 2) \div 5) + d - 1
        doe == yoe * 365 + (yoe \div 4) - (yoe \div 100) + doy
    IN era * 146097 + doe - 719468

\* a datetime-local value: "YYYY-MM-DDTHH:mm"
IsLocalDateTime(s) ==
    /\ Len(s) = 16
    /\ s[5] = "-" /\ s[8] = "-" /\ s[11] = "T" /\ s[14] = ":"
    /\ \A i \in {1, 2, 3, 4, 6, 7, 9, 10, 12, 13, 15, 16} : IsDigit(s[i])
    /\ Num(SubSeq(s, 6, 7)) \in 1..12
    /\ Num(SubSeq(s, 9, 10)) \in 1..DaysInMonth(Num(SubSeq(s, 1, 4)), Num(SubSeq(s, 6, 7)))
    /\ Num(SubSeq(s, 12, 13)) \in 0..23
    /\ Num(SubSeq(s, 15, 16)) \in 0..59

\* new Date(s) of a text without a zone: the local time it writes, or NaN
DateOfLocal(s) ==
    IF IsLocalDateTime(s)
    THEN [nan |-> FALSE,
          time |-> UtcOfLocal(
              DaysFromCivil(Num(SubSeq(s, 1, 4)), Num(SubSeq(s, 6, 7)), Num(SubSeq(s, 9, 10)))
                  * SecondsPerDay
              + Num(SubSeq(s, 12, 13)) * 3600 + Num(SubSeq(s, 15, 16)) * 60)]
    ELSE [nan |-> TRUE, time |-> 0]

\* Date.prototype.toISOString: "YYYY-MM-DDTHH:mm:ss.000Z"
toISOString(t) ==
    dayKey(t) \o <<"T">> \o pad(getUTCHours(t)) \o <<":">> \o pad(getUTCMinutes(t))
        \o <<":">> \o pad(getUTCSeconds(t)) \o <<".", "0", "0", "0", "Z">>

toIsoFromLocal(value) ==
    IF ~Truthy(value) THEN Null
    ELSE LET local == DateOfLocal(value.v) IN
         IF local.nan THEN Null ELSE Str(toISOString(local.time))

\* the values handleSubmit pulls from the form
FormTitle(fd) == Str(trim(OrElse(fd.title, Str(<<>>)).v))
FormStartIso(fd) == toIsoFromLocal(fd.start_ts)
FormEndIso(fd) == toIsoFromLocal(fd.end_ts)
FormVenue(fd) == OrElse(Str(trim(OrElse(fd.venue, Str(<<>>)).v)), Null)

\* the validation without its last test: if (!title || !startIso)
AdminInvalidNoEnd(fd) == ~Truthy(FormTitle(fd)) \/ ~Truthy(FormStartIso(fd))

\* if (!title || !startIso || !endIso)
AdminInvalid(fd) ==
    ~Truthy(FormTitle(fd)) \/ ~Truthy(FormStartIso(fd)) \/ ~Truthy(FormEndIso(fd))

\* the JSON body of the POST
PostBody(fd) ==
    [title |-> FormTitle(fd), start_ts |-> FormStartIso(fd), end_ts |-> FormEndIso(fd),
     venue |-> FormVenue(fd)]
NoPost == [title |-> Null, start_ts |-> Null, end_ts |-> Null, venue |-> Null]

PleaseFill == Str(<<"Please fill Title, Start, and End.">>)
EventCreated == Str(<<"Event created - check the homepage list.">>)
\* `Error: ${err.message ?? "Something went wrong"}`
ErrorMessage(m) == Str(<<"Error: ">> \o MessageOr(m, "Something went wrong").v)
\* err?.error || `Request failed (${res.status})`
RequestError(err, status) ==
    OrElse(err.error, Str(<<"Request failed (">> \o ToDigits(status) \o <<")">>))

\* what the form can hold when it is submitted
LocalStart == <<"2", "0", "2", "5", "-", "0", "9", "-", "0", "5", "T", "1", "7", ":", "0", "0">>
LocalEnd == <<"2", "0", "2", "5", "-", "0", "9", "-", "0", "5", "T", "1", "9", ":", "0", "0">>
FormTitles == {Str(<<>>), Str(<<" ">>), Str(<<"a">>), Str(<<" ", "B", "B", "Q", " ">>)}
FormDates(valid) == {Str(<<>>), Str(<<"s", "o", "o", "n">>), Str(valid)}
FormVenues == {Str(<<" ">>), Str(<<"H", "a", "l", "l">>)}
AdminForms ==
    [title : FormTitles, start_ts : FormDates(LocalStart), end_ts : FormDates(LocalEnd),
     venue : FormVenues]
\* form.reset(): no input has a default value
EmptyForm == [title |-> Str(<<>>), start_ts |-> Str(<<>>), end_ts |-> Str(<<>>),
              venue |-> Str(<<>>)]

\* responses that are not ok, their JSON bodies, and what fetch throws
NotOkStatuses == {400, 500}
ErrorBodies == {[error |-> Str(<<"title, start_ts, end_ts are required">>)],
                [error |-> Undefined]}
EmptyObject == [error |-> Undefined]
FetchThrown == {Str(<<"Failed to fetch">>), Undefined}

AdminIdle ==
    /\ aPc = "idle"
    /\ aForm = EmptyForm
    /\ aFd = EmptyForm
    /\ aSubmitting = FALSE
    /\ aMessage = Null
    /\ aSent = NoPost
    /\ aStatus = 0
    /\ aPath = "none"

\* the form holding the values form is submitted (the button is disabled while
\* submitting): handleSubmit up to its return or to the await of fetch
AdminSubmit(form) ==
    /\ ~aSubmitting
    /\ aPc = "idle"
    /\ aForm' = form
    /\ aFd' = form
    /\ aStatus' = 0
    /\ IF AdminInvalid(form)
       THEN /\ aMessage' = PleaseFill
            /\ aSubmitting' = FALSE
            /\ aSent' = NoPost
            /\ aPc' = "idle"
            /\ aPath' = "validation"
       ELSE /\ aMessage' = Null
            /\ aSubmitting' = TRUE
            /\ aSent' = PostBody(form)
            /\ aPc' = "fetch"
            /\ aPath' = "none"
    /\ UNCHANGED <<store, postVars, now, getVars, listVars, weekVars, kioskVars, upVars>>

\* res.ok: form.reset(), setMessage, finally setSubmitting(false)
AdminFetchOk ==
    /\ aPc = "fetch"
    /\ aForm' = EmptyForm
    /\ aMessage' = EventCreated
    /\ aSubmitting' = FALSE
    /\ aPc' = "idle"
    /\ aPath' = "ok"
    /\ UNCHANGED <<store, postVars, now, getVars, listVars, weekVars, kioskVars, upVars,
                   aFd, aSent, aStatus>>

\* !res.ok: the handler awaits res.json()
AdminFetchNotOk(status) ==
    /\ aPc = "fetch"
    /\ aStatus' = status
    /\ aPc' = "json"
    /\ UNCHANGED <<store, postVars, now, getVars, listVars, weekVars, kioskVars, upVars,
                   aForm, aFd, aSubmitting, aMessage, aSent, aPath>>

\* throw new Error(...), caught: setMessage, finally setSubmitting(false)
AdminFail(m, path) ==
    /\ aMessage' = ErrorMessage(m)
    /\ aSubmitting' = FALSE
    /\ aPc' = "idle"
    /\ aPath' = path
    /\ UNCHANGED <<store, postVars, now, getVars, listVars, weekVars, kioskVars, upVars,
                   aForm, aFd, aSent, aStatus>>

\* res.json() gives the body err
AdminJson(err) ==
    /\ aPc = "json"
    /\ AdminFail(RequestError(err, aStatus), "notOk")

\* res.json() rejects: .catch(() => ({}))
AdminJsonRejects ==
    /\ aPc = "json"
    /\ AdminFail(RequestError(EmptyObject, aStatus), "notOk")

\* fetch rejects with an error whose message is m
AdminFetchThrows(m) ==
    /\ aPc = "fetch"
    /\ AdminFail(m, "thrown")

\* the request is answered
AdminSettle ==
    \/ AdminFetchOk
    \/ \E status \in NotOkStatuses : AdminFetchNotOk(status)
    \/ \E err \in ErrorBodies : AdminJson(err)
    \/ AdminJsonRejects
    \/ \E m \in FetchThrown : AdminFetchThrows(m)

\* ------------------------------------------- the creation endpoint's runs

InitPost ==
    /\ store = <<>> /\ PostIdle /\ GetIdle /\ ListIdle /\ WeekIdle /\ now = ClockStart
    /\ KioskIdle /\ UpcomingIdle
    /\ AdminIdle

NextPost ==
    \/ \E b \in PostBodies : PostRequest(b)
    \/ PostHandle
    \/ PostStoreOk
    \/ \E m \in StoreErrors : PostStoreError(m)
    \/ \E m \in ThrownErrors : PostStoreThrows(m)

SpecPost == InitPost /\ [][NextPost]_vars

\* ------------------------------------------- the calendar endpoint's runs

Alphabet == {"a", "7", " ", BS, ";", ",", LF, CR, NonAscii}

TitleQA == <<"Q", "&", "A", ";", " ", "S", "e", "s", "s", "i", "o", "n", ",", " ", "P", "t", ".", "1">>
\* a title that carries a line break and the text BEGIN:VEVENT
TitleInject == <<"x", CR, LF>> \o LineBeginEvent

LongTitles == {Rep(c, k) : c \in {"a", " "}, k \in (FILENAME_LIMIT - 1)..MaxPad}

IcsTitles ==
    (SeqsUpTo(Alphabet, MaxLen) \ {<<>>}) \cup {TitleQA, TitleBBQ, TitleInject} \cup LongTitles
IcsVenues == {Null, Str(VenueMainHall)} \cup {Str(v) : v \in SeqsUpTo(Alphabet, 1)}


\* the rows the events table can hold for one event: any title, any venue
EventRows(id) ==
    {[id |-> id, title |-> t, start_ts |-> BbqStart, end_ts |-> BbqEnd, venue |-> Null] :
        t \in IcsTitles}
    \cup {[id |-> id, title |-> <<"a">>, start_ts |-> BbqStart, end_ts |-> BbqEnd,
           venue |-> v] : v \in IcsVenues}

GetIds == {Undefined, Str(<<>>), Str(IdE1), Str(IdE2), Str(IdUnknown)}

InitIcs ==
    /\ \E r \in EventRows(IdE1) : store = <<r, RowBBQ>>
    /\ PostIdle
    /\ GetIdle
    /\ ListIdle
    /\ WeekIdle
    /\ KioskIdle
    /\ UpcomingIdle
    /\ AdminIdle
    /\ now = ClockStart

NextIcs ==
    \/ \E id \in GetIds : GetRequest(id)
    \/ GetHandle
    \/ GetStoreFound
    \/ \E m \in LookupErrors : GetStoreError(m)
    \/ ClockTick

SpecIcs == InitIcs /\ [][NextIcs]_vars

\* ----------------------------------------------------- the components' runs

InitList ==
    /\ store = <<>>
    /\ PostIdle
    /\ GetIdle
    /\ WeekIdle
    /\ KioskIdle
    /\ UpcomingIdle
    /\ AdminIdle
    /\ now = ClockStart
    /\ listEvents \in ListInputs
    /\ listRendered = FALSE
    /\ listGroups = <<>>

NextList == ListRender

SpecList == InitList /\ [][NextList]_vars

InitWeek ==
    /\ store = <<>>
    /\ PostIdle
    /\ GetIdle
    /\ ListIdle
    /\ tz \in Zones
    /\ WEEK_START \in {0, 1}
    /\ now \in NowSamples(tz)
    /\ \E s \in EventStarts(tz) : \E e \in EventEnds(s) :
         weekEvents = <<[id |-> 1, start_ts |-> s, end_ts |-> e]>>
    /\ weekRendered = FALSE
    /\ weekGrid = NoGrid
    /\ KioskIdle
    /\ UpcomingIdle
    /\ AdminIdle

NextWeek == WeekRender

SpecWeek == InitWeek /\ [][NextWeek]_vars

InitDisplay ==
    /\ store = <<>>
    /\ PostIdle
    /\ GetIdle
    /\ ListIdle
    /\ WeekIdle
    /\ KioskIdle
    /\ UpcomingIdle
    /\ AdminIdle
    /\ now = ClockStart

NextDisplay ==
    \/ KioskMount
    \/ KioskTick
    \/ \E f \in kFlights, d \in FetchData : KioskFetchOk(f, d)
    \/ \E f \in kFlights, e \in FetchErrors : KioskFetchFail(f, e)
    \/ KioskUnmount
    \/ UpcomingMount
    \/ \E d \in FetchData : UpcomingFetchOk(d)
    \/ \E e \in FetchErrors : UpcomingFetchFail(e)

SpecDisplay == InitDisplay /\ [][NextDisplay]_vars

InitAdmin ==
    /\ store = <<>>
    /\ PostIdle
    /\ GetIdle
    /\ ListIdle
    /\ tz \in {ZoneUTC, ZoneNewYorkSpring}
    /\ WEEK_START = 1
    /\ weekEvents = <<>>
    /\ weekRendered = FALSE
    /\ weekGrid = NoGrid
    /\ KioskIdle
    /\ UpcomingIdle
    /\ AdminIdle
    /\ now = ClockStart

NextAdmin ==
    \/ \E form \in AdminForms : AdminSubmit(form)
    \/ AdminFetchOk
    \/ \E status \in NotOkStatuses : AdminFetchNotOk(status)
    \/ \E err \in ErrorBodies : AdminJson(err)
    \/ AdminJsonRejects
    \/ \E m \in FetchThrown : AdminFetchThrows(m)

\* every request sent is answered or fails: fetch and res.json() settle
SpecAdmin == InitAdmin /\ [][NextAdmin]_vars /\ WF_vars(AdminSettle)

\* ------------------------------------------------------------ claims: POST

PostFields == IF postReq.kind = "object" THEN postReq.fields ELSE NoFields
Lacks(x) == x.t # "string" \/ Len(x.v) = 0
PostLacksRequired ==
    Lacks(PostFields.title) \/ Lacks(PostFields.start_ts) \/ Lacks(PostFields.end_ts)
PostParsed == postPc # "idle" /\ postReq.kind # "malformed"

\* C1: a POST whose parsed body lacks title, start_ts or end_ts, or has one of
\* them empty, is answered 400 with an {error} body; no insert is issued and
\* the store's contents are unchanged.
C1_MissingFieldRejected ==
    (PostParsed /\ PostLacksRequired) =>
        /\ postInserts = 0
        /\ postPc # "inserting"
        /\ store = postStoreBefore
        /\ postPc = "done" =>
             /\ postResp.status = 400
             /\ postResp.kind = "error"
             /\ postResp.error # ""

C1_Witness ==
    /\ postPc = "done"
    /\ postReq.kind = "object"
    /\ postReq.fields.title = Str(<<>>)
    /\ postReq.fields.start_ts = IsoA
    /\ postReq.fields.end_ts = IsoB
    /\ postResp.status = 400
    /\ Len(store) = 1

\* C2: a POST that passes validation issues exactly one insert with the
\* request's title, start_ts, end_ts and venue (null when venue is absent);
\* the answer is 201 with the stored row when the store reports success and
\* 400 with the store's message when it reports failure.
C2_ValidRequestInserted ==
    (PostParsed /\ ~PostLacksRequired /\ postPc \in {"inserting", "done"}) =>
        /\ postInserts = 1
        /\ postInsertArg =
             <<[title |-> PostFields.title, start_ts |-> PostFields.start_ts,
                end_ts |-> PostFields.end_ts,
                venue |-> IF PostFields.venue.t = "undefined" THEN Null
                          ELSE PostFields.venue]>>
        /\ (postPc = "done" /\ postOutcome.kind = "ok") =>
             /\ postResp.status = 201
             /\ postResp.kind = "row"
             /\ store = Append(postStoreBefore, postResp.row[1])
             /\ [c \in {"title", "start_ts", "end_ts", "venue"} |-> postResp.row[1][c]]
                  = postInsertArg[1]
        /\ (postPc = "done" /\ postOutcome.kind = "error") =>
             /\ postResp.status = 400
             /\ postResp.kind = "error"
             /\ postResp.error = postOutcome.msg
             /\ store = postStoreBefore

C2_Witness ==
    /\ postPc = "done"
    /\ postOutcome.kind = "error"
    /\ postResp.status = 400
    /\ PostFields.venue = Undefined
    /\ Len(store) = 1
    /\ store[1].venue = Str(<<>>)

\* C3: a POST whose body is not parseable JSON, and any other exception thrown
\* while handling, is answered 500 with an {error} body, never 2xx or 4xx.
C3_UnexpectedFailureIs500 ==
    (postPc = "done" /\ (postReq.kind = "malformed" \/ postOutcome.kind = "throws")) =>
        /\ postResp.status = 500
        /\ postResp.kind = "error"
        /\ postResp.error # ""
        /\ postReq.kind = "malformed" => postInserts = 0 /\ store = postStoreBefore

C3_Witness ==
    /\ postPc = "done"
    /\ postReq.kind = "malformed"
    /\ postResp = ErrorResp(500, JsonError)
    /\ Len(store) = 1

\* ------------------------------------------------------------ claims: GET

\* the lines of a text, split at CR+LF
SplitCRLF(s) ==
    LET breaks == {i \in 1..(Len(s) - 1) : s[i] = CR /\ s[i + 1] = LF}
        n == Cardinality(breaks) + 1
        pos(k) == CHOOSE i \in breaks : Cardinality({j \in breaks : j < i}) = k - 1
    IN [k \in 1..n |->
          SubSeq(s, IF k = 1 THEN 1 ELSE pos(k - 1) + 2,
                    IF k = n THEN Len(s) ELSE pos(k) - 1)]

GetDone200 == getPc = "done" /\ getResp.status = 200
GetIdAbsent == getId.t # "string" \/ Len(getId.v) = 0

\* C4: GET answers 400 when the id is missing or empty, without querying the
\* store; 404 when the id is non-empty and the lookup reports an error or no
\* event; 200 with Content-Type text/calendar only when the lookup returned an
\* event; the 400 and 404 answers carry no calendar payload.
C4_StatusByLookup ==
    /\ (getPc \in {"querying", "done"} /\ GetIdAbsent) =>
         /\ getPc = "done"
         /\ getQueries = 0
         /\ getResp.status = 400
         /\ getResp.body = <<>>
         /\ getResp.contentType # ContentTypeCalendar
    /\ (getPc = "done" /\ ~GetIdAbsent) =>
         /\ getQueries = 1
         /\ (getReply.error # "" \/ getReply.data = <<>>) =>
              /\ getResp.status = 404
              /\ getResp.body = <<>>
              /\ getResp.contentType # ContentTypeCalendar
         /\ (getReply.error = "" /\ getReply.data # <<>>) =>
              /\ getResp.status = 200
              /\ getResp.contentType = ContentTypeCalendar
              /\ getResp.body # <<>>
              /\ getReply.data[1].id = getId.v

C4_Witness ==
    /\ getPc = "done"
    /\ getId = Str(<<>>)
    /\ getResp.status = 400
    /\ getPrev # <<>>

IsBareBreak(s, i) ==
    \/ s[i] = CR /\ (i = Len(s) \/ s[i + 1] # LF)
    \/ s[i] = LF /\ (i = 1 \/ s[i - 1] # CR)
CountLines(lines, l) == Cardinality({i \in 1..Len(lines) : lines[i] = l})

\* C5: for every event, whatever its title and venue hold (CR, LF, the text
\* BEGIN:VEVENT), the payload has exactly one BEGIN:VEVENT line and one
\* END:VEVENT line inside one VCALENDAR, and every line break in it is CR+LF:
\* no bare LF and no bare CR anywhere.
C5_OneEventCrlfOnly ==
    GetDone200 =>
        LET lines == SplitCRLF(getResp.body) IN
        /\ CountLines(lines, LineBeginEvent) = 1
        /\ CountLines(lines, LineEndEvent) = 1
        /\ CountLines(lines, LineBeginCalendar) = 1
        /\ CountLines(lines, LineEndCalendar) = 1
        /\ lines[1] = LineBeginCalendar
        /\ \A i \in 1..Len(getResp.body) : ~IsBareBreak(getResp.body, i)

\* the escaper that reads its input once, character by character
EscapeChar(c) ==
    IF c = BS THEN <<BS, BS>>
    ELSE IF c = ";" THEN <<BS, ";">>
    ELSE IF c = "," THEN <<BS, ",">>
    ELSE IF c = LF THEN <<BS, "n">>
    ELSE <<c>>
RECURSIVE EscapeOnePass(_)
EscapeOnePass(s) == IF s = <<>> THEN <<>> ELSE EscapeChar(Head(s)) \o EscapeOnePass(Tail(s))

TitleQAEscaped == <<"Q", "&", "A", BS, ";", " ", "S", "e", "s", "s", "i", "o", "n", BS, ",", " ", "P", "t", ".", "1">>
Reserved == {BS, ";", ",", LF}
HasReserved(s) == \E i \in 1..Len(s) : s[i] \in Reserved

\* C6: SUMMARY and LOCATION carry the title and the venue escaped as a
\* single-pass escaper would: backslash doubled, semicolon, comma and newline
\* prefixed by one backslash that is not escaped again; "Q&A; Session, Pt.1"
\* gives "Q&A\; Session\, Pt.1"; text without reserved characters is unchanged.
C6_EscapeIsSinglePass ==
    GetDone200 =>
        LET lines == SplitCRLF(getResp.body)
            ev == getReply.data[1]
            venue == IF ev.venue.t = "string" THEN ev.venue.v ELSE <<>>
        IN /\ lines[11] = SummaryPrefix \o EscapeOnePass(ev.title)
           /\ lines[12] = LocationPrefix \o EscapeOnePass(venue)
           /\ ev.title = TitleQA => lines[11] = SummaryPrefix \o TitleQAEscaped
           /\ ~HasReserved(ev.title) => lines[11] = SummaryPrefix \o ev.title
           /\ ~HasReserved(venue) => lines[12] = LocationPrefix \o venue

C6_Witness ==
    /\ GetDone200
    /\ getReply.data[1].title = <<BS, ";">>
    /\ SplitCRLF(getResp.body)[11] = SummaryPrefix \o <<BS, BS, BS, ";">>

\* the <sanitized-title> of the Content-Disposition value
FilenameTitle(d) == SubSeq(d, Len(DispositionPrefix) + 1, Len(d) - Len(DispositionSuffix))

\* C7: the sanitized title in the filename "event-<sanitized-title>.ics" holds
\* only ASCII letters, digits, underscore and hyphen, and its length is
\* min(50, length of the title), so at most 50.
C7_FilenameSafe ==
    GetDone200 =>
        LET d == getResp.disposition
            part == FilenameTitle(d)
            title == getReply.data[1].title
        IN /\ SubSeq(d, 1, Len(DispositionPrefix)) = DispositionPrefix
           /\ SubSeq(d, Len(d) - Len(DispositionSuffix) + 1, Len(d)) = DispositionSuffix
           /\ \A i \in 1..Len(part) : part[i] \in SafeChars
           /\ Len(part) <= 50
           /\ Len(part) = (IF Len(title) < 50 THEN Len(title) ELSE 50)

C7_Witness ==
    /\ GetDone200
    /\ Len(getReply.data[1].title) = 51
    /\ getReply.data[1].title[1] = " "
    /\ FilenameTitle(getResp.disposition) = Rep("_", 50)

\* C8: two serializations of the same event at two generation instants agree
\* line for line except on the DTSTAMP line; the UID line is the event id
\* followed by the same fixed suffix on every call, and two events with
\* distinct ids get distinct UIDs.
C8_DeterministicExceptStamp ==
    (GetDone200 /\ getPrev # <<>>) =>
        LET a == SplitCRLF(getPrev[1].body)
            b == SplitCRLF(getResp.body)
        IN /\ a[7] = UidPrefix \o getPrev[1].id \o UidSuffix
           /\ b[7] = UidPrefix \o getId.v \o UidSuffix
           /\ getPrev[1].id = getId.v =>
                /\ Len(a) = Len(b)
                /\ \A i \in 1..Len(a) : i # 8 => a[i] = b[i]
           /\ getPrev[1].id # getId.v => a[7] # b[7]

C8_Witness ==
    /\ GetDone200
    /\ getPrev # <<>>
    /\ getPrev[1].id = getId.v
    /\ getPrev[1].body # getResp.body
    /\ SplitCRLF(getPrev[1].body)[8] = DtStampPrefix \o toIcsUtc(ClockStart)
    /\ SplitCRLF(getResp.body)[8] = DtStampPrefix \o toIcsUtc(ClockStart + ClockStep)

\* ------------------------------------------------------- claims: ListView

UtcDay(t) == t \div SecondsPerDay
\* where an event stands in the input list
InputIndex(ev) == CHOOSE i \in 1..Len(listEvents) : listEvents[i] = ev
GroupDay(g) == UtcDay(g.rows[1].start_ts)

\* groups ascending by day, one per distinct start day, each event in the
\* group of its day
GroupsPartitionByDay ==
    /\ \A g \in 1..Len(listGroups) :
         /\ listGroups[g].rows # <<>>
         /\ \A r \in 1..Len(listGroups[g].rows) :
              UtcDay(listGroups[g].rows[r].start_ts) = GroupDay(listGroups[g])
    /\ \A g, h \in 1..Len(listGroups) : g < h => GroupDay(listGroups[g]) < GroupDay(listGroups[h])
    /\ \A i \in 1..Len(listEvents) :
         Cardinality({<<g, r>> \in (1..Len(listGroups)) \X (1..MaxEvents + 1) :
                        /\ r <= Len(listGroups[g].rows)
                        /\ listGroups[g].rows[r] = listEvents[i]}) = 1
    /\ \A g \in 1..Len(listGroups) : \A r \in 1..Len(listGroups[g].rows) :
         \E i \in 1..Len(listEvents) : listEvents[i] = listGroups[g].rows[r]

InputAscending ==
    \A i, j \in 1..Len(listEvents) : i < j => listEvents[i].start_ts <= listEvents[j].start_ts

WeekInstants == {now} \cup {weekEvents[i].start_ts : i \in 1..Len(weekEvents)}
EventWithId(id) == CHOOSE i \in 1..Len(weekEvents) : weekEvents[i].id = id
\* 2025-01-08T14:00:00Z, in the week of Monday 2025-01-06
WednesdayAfternoon == ZoneUTC.base + 3 * SecondsPerDay + 14 * HOUR
MondayMidnight == ZoneUTC.base + SecondsPerDay

\* C10: for every instant t and week start day 0 or 1, dayIndex(t) is in 0..6
\* and startOfWeek(t) plus dayIndex(t) calendar days is the local calendar day
\* of t; with a Monday week start a Wednesday instant has index 2.
C10_DayIndexIsColumnOfDay ==
    weekRendered =>
        /\ \A t \in WeekInstants :
             /\ dayIndex(t) \in 0..6
             /\ LocalDay(addDate(startOfWeek(t), dayIndex(t))) = LocalDay(t)
        /\ \A p \in 1..Len(weekGrid.placed) :
             LET col == weekGrid.placed[p].col
                 ev == weekEvents[EventWithId(weekGrid.placed[p].id)]
             IN /\ col = dayIndex(ev.start_ts)
                /\ col \in 0..6
                /\ startOfWeek(ev.start_ts) = weekGrid.weekStart =>
                     LocalDay(weekGrid.header[col + 1]) = LocalDay(ev.start_ts)
        /\ (tz = ZoneUTC /\ WEEK_START = 1 /\ weekEvents[1].start_ts = WednesdayAfternoon) =>
             /\ dayIndex(weekEvents[1].start_ts) = 2
             /\ startOfWeek(weekEvents[1].start_ts) = MondayMidnight

C10_Witness ==
    /\ weekRendered
    /\ tz = ZoneNewYorkSpring
    /\ WEEK_START = 1
    /\ weekEvents[1].start_ts = tz.at + 11 * HOUR
    /\ Len(weekGrid.placed) = 1
    /\ weekGrid.placed[1].id = 1
    /\ weekGrid.placed[1].col = 6
    /\ LocalDay(weekGrid.header[7]) = LocalDay(weekEvents[1].start_ts)
    /\ weekGrid.header[7] - weekGrid.header[6] = 24 * HOUR

\* the first instant of its local calendar day: local midnight, or the instant
\* the clock jumps to when midnight is skipped
IsStartOfLocalDay(u) == LocalDay(u - 1) < LocalDay(u)
IsShown(ev) == \E p \in 1..Len(weekGrid.placed) : weekGrid.placed[p].id = ev.id

\* C11: week membership is half-open: for every instant t,
\* startOfWeek(t) <= t < endOfWeek(t), endOfWeek(t) is startOfWeek(t) plus 7
\* calendar days, and startOfWeek(t) is the local midnight that begins the
\* configured week start day; the week view shows an event exactly when its
\* start s satisfies startOfWeek(now) <= s < endOfWeek(now).
C11_WeekIsHalfOpenFromMidnight ==
    weekRendered =>
        /\ \A t \in WeekInstants :
             /\ startOfWeek(t) <= t
             /\ t < endOfWeek(t)
             /\ LocalDay(endOfWeek(t)) = LocalDay(startOfWeek(t)) + 7
             /\ getDay(startOfWeek(t)) = WEEK_START
             /\ IsStartOfLocalDay(startOfWeek(t))
        /\ weekGrid.weekStart = startOfWeek(now)
        /\ weekGrid.weekEnd = endOfWeek(now)
        /\ \A i \in 1..Len(weekEvents) :
             IsShown(weekEvents[i]) <=>
                 /\ startOfWeek(now) <= weekEvents[i].start_ts
                 /\ weekEvents[i].start_ts < endOfWeek(now)


\* ----------------------------------------------------------- claims: kiosk

AllLoadsCompleted == kPhase = "mounted" /\ kStarted > 0 /\ kFlights = {}

\* C12: each load of the kiosk is independent of the others: in every
\* interleaving of load starts and completions, once all loads have completed
\* the displayed events and error are those of the most recently started load:
\* its rows and no error if it succeeded, its message if it failed.
C12_LastStartedLoadWins ==
    AllLoadsCompleted =>
        /\ kLastStarted.kind = "ok" => (kEvents = kLastStarted.data /\ kError = Null)
        /\ kLastStarted.kind = "fail" => kError = kLastStarted.msg

\* ------------------------------------------- claims: the fetching displays

\* the three states of a display with the state variables loading and error
OneOfThree(loading, error) == ~(loading /\ error # Null)

KioskThreeStates ==
    kPhase = "mounted" =>
        /\ OneOfThree(kLoading, kError)
        /\ kLoading <=> kFlights # {}
        /\ kError # Null => kLastCompleted.kind = "fail"
        /\ kLastCompleted.kind = "ok" => kError = Null

UpcomingThreeStates ==
    uPc # "init" =>
        /\ OneOfThree(uLoading, uError)
        /\ uLoading <=> uPc = "fetching"
        /\ uError # Null => uOutcome.kind = "fail"
        /\ uOutcome.kind = "ok" => uError = Null

\* C13: UpcomingEvents and KioskPage are in exactly one of the states loading,
\* error and loaded: never loading with an error message; loading is true
\* exactly while a fetch is in flight; the error message is non-null only if
\* the most recently completed fetch failed, and after a successful completion
\* no error message is displayed.
C13_ThreeStates == KioskThreeStates /\ UpcomingThreeStates

\* C15: once the kiosk's cleanup has run, no step changes events, loading or
\* error: a load that was in flight completes, with success or failure,
\* without a state update, and no further load is started.
C15_NothingAfterCleanup ==
    [][kPhase = "unmounted" =>
          /\ kEvents' = kEvents
          /\ kLoading' = kLoading
          /\ kError' = kError
          /\ kStarted' = kStarted
          /\ kFlights' \subseteq kFlights]_vars

\* two loads were in flight at the cleanup; one has since succeeded with rows
\* and the last has failed, and the page still has its state of before
C15_Witness ==
    /\ kPhase = "unmounted"
    /\ kStarted = 2
    /\ kFlights = {}
    /\ kLastStarted.kind = "ok"
    /\ kLastStarted.data # <<>>
    /\ kLastCompleted.kind = "fail"
    /\ kEvents = <<>>
    /\ kLoading
    /\ kError = Null

\* -------------------------------------------------- claims: grid position

\* C14: for every event placed in the week view, whatever its start and end
\* times of day, the start offset and the end offset are both clipped to the
\* 8:00-20:00 window, each in 0..720 minutes from 8:00, and the top is within
\* 0%..100% of the column.
C14_OffsetsClippedToWindow ==
    weekRendered =>
        \A p \in 1..Len(weekGrid.placed) :
            /\ weekGrid.placed[p].sMin \in 0..minutesSpan
            /\ weekGrid.placed[p].eMin \in 0..minutesSpan
            /\ weekGrid.placed[p].topPct \in 0..(100 * minutesSpan)

\* ------------------------------------------------------ claims: admin form

HasText(v) == \E i \in 1..Len(v) : v[i] \notin WhiteSpace

\* title, start and end are present and valid after trimming / parsing
FieldsValid(fd) ==
    /\ HasText(fd.title.v)
    /\ IsLocalDateTime(fd.start_ts.v)
    /\ IsLocalDateTime(fd.end_ts.v)

AdminSafe ==
    /\ aPc # "idle" => (aSubmitting /\ aSent # NoPost /\ aForm = aFd)
    /\ aSent # NoPost => FieldsValid(aFd)
    /\ aPath = "validation" => aSent = NoPost
    /\ (aPc = "idle" /\ aPath # "none") => (~aSubmitting /\ aMessage # Null)
    /\ (aPc = "idle" /\ aPath \in {"validation", "notOk", "thrown"}) => aForm = aFd
    /\ (aPc = "idle" /\ aPath = "ok") => aForm = EmptyForm

\* C16: on every path of a submission (validation failure, response not ok,
\* fetch throwing, success) submitting is true while the submission is being
\* handled and eventually is false again with a message set; a POST is sent
\* only if title, start and end are present and valid; the form is reset only
\* on an ok response and keeps its values on every failure path.
C16_SubmitHandled ==
    /\ []AdminSafe
    /\ aSubmitting ~> (~aSubmitting /\ aMessage # Null)

\* a valid form was posted, the answer was a 500 whose body names no error: the
\* message is set, submitting is false and the form still holds the values
C16_Witness ==
    /\ aPc = "idle"
    /\ aPath = "notOk"
    /\ aStatus = 500
    /\ FieldsValid(aFd)
    /\ aSent = PostBody(aFd)
    /\ aForm = aFd
    /\ ~aSubmitting
    /\ aMessage = Str(<<"Error: ", "Request failed (", "5", "0", "0", ")">>)
====
